---- MODULE Spec2Model ----
(***************************************************************************)
(* quicklink: the prefetch dispatcher (src/src/prefetch.mjs) and the       *)
(* entry point with its IntersectionObserver registry (src/src/index.mjs). *)
(*                                                                         *)
(* One step of the model is one task of the page's event loop: a call of   *)
(* the entry point, the run of a scheduled pass, an IntersectionObserver   *)
(* notification, a direct call of prefetcher, the completion event of a    *)
(* started request (with the continuation of the awaiting prefetcher,      *)
(* which runs as a microtask of the same task), a change of the network    *)
(* information.                                                            *)
(***************************************************************************)
EXTENDS Naturals, Sequences, FiniteSets, TLC

\* ---------------------------------------------------------------- bounds
MaxInvocations == 2    \* strategy invocations over the whole run
MaxBatch == 2          \* entries of one intersection notification
MaxScheduled == 1      \* passes handed to the scheduler and not yet run

\* ------------------------------------------------------- program constants
DefaultTimeout == 2000

\* ------------------------------------------------------------ environment
\* The anchors of the document, in document order, and their href.
Anchors == <<"l1", "l2", "l3">>
Href == [l \in {"l1", "l2", "l3"} |->
           IF l = "l1" THEN "/a" ELSE ""]
AnchorSet == {Anchors[i] : i \in 1..Len(Anchors)}

\* options.el, and the anchors under it in document order.
Elements == {"document"}
QuerySelectorAllA(el) == IF el = "document" THEN Anchors ELSE <<>>

\* The urls of the callers' lists, and those of the direct calls.
ListUrls == {"/a", "/b"}
DirectUrls == {"/a"}
Urls == ListUrls \cup {Href[l] : l \in AnchorSet}
Strategies == {"link", "xhr", "fetch"}
HttpStatuses == {200, 404}

\* A string as the sequence of its characters.
Str2g == <<"2", "g">>
StrSlow2g == <<"s", "l", "o", "w", "-", "2", "g">>
Str4g == <<"4", "g">>
Undefined == [defined |-> FALSE, chars |-> <<>>]
Defined(s) == [defined |-> TRUE, chars |-> s]

\* navigator.connection: absent, or its effectiveType and saveData.
NoConnection ==
  [present |-> FALSE, effectiveType |-> Undefined, saveData |-> FALSE]
Connection(t, s) == [present |-> TRUE, effectiveType |-> t, saveData |-> s]
Connection4g == Connection(Defined(Str4g), FALSE)
NetStates ==
  {Connection4g,
   Connection(Defined(StrSlow2g), FALSE),
   Connection(Undefined, TRUE)}

\* What the runtime offers: a document, link.relList.supports("prefetch"),
\* self.fetch, a head element, an element named "script", and
\* navigator.connection.
Env(d, r, f, h, n, c) ==
  [document |-> d, relListSupports |-> r, fetch |-> f, head |-> h,
   namedScript |-> n, netinfo |-> c]
Envs ==
  {Env(TRUE, TRUE, TRUE, TRUE, FALSE, TRUE),    \* a current browser
   Env(TRUE, FALSE, FALSE, TRUE, FALSE, FALSE), \* no rel=prefetch, no fetch
   Env(TRUE, TRUE, TRUE, FALSE, FALSE, FALSE),  \* nothing to append a link to
   Env(FALSE, FALSE, TRUE, FALSE, FALSE, FALSE)} \* no document

VARIABLES
  env,              \* the page's capabilities, fixed for the process
  connection,       \* navigator.connection
  preFetched,       \* prefetch.mjs: the keys of preFetched
  loaderFunctions,  \* index.mjs: the Map url -> loader (its priority)
  observed,         \* the anchors handed to observer.observe
  scheduled,        \* the callbacks given to options.timeoutFn, not yet run:
                    \* the options each closes over, the timeout it was
                    \* handed with and the time it has waited
  pending,          \* requests started and not settled, per url and strategy
  stalled,          \* XHRs that failed in transport: their promise never settles
  invocations,      \* the number of strategy invocations made, per url
  thrown,           \* the number of strategy executors that threw
  uncaught          \* the number of prefetcher promises that rejected

vars == <<env, connection, preFetched, loaderFunctions, observed, scheduled,
          pending, stalled, invocations, thrown, uncaught>>

\* ----------------------------------------------------------- prefetch.mjs
\* Faulty variant: the effective type compared to "2g" instead of searched for it
IncludesExact(s, sub) == s = sub

\* String.prototype.includes
Includes(s, sub) ==
  \E i \in 1..(Len(s) + 1) :
     /\ i + Len(sub) - 1 <= Len(s)
     /\ SubSeq(s, i, i + Len(sub) - 1) = sub

\* (x || '')
OrEmpty(s) == IF s.defined /\ s.chars # <<>> THEN s.chars ELSE <<>>

\* The two early returns on navigator.connection.
Gated(conn) ==
  /\ conn.present
  /\ \/ Includes(OrEmpty(conn.effectiveType), Str2g)
     \/ conn.saveData

Support(e) == IF ~e.document THEN FALSE ELSE e.relListSupports

\* Faulty variant: the two branches of the choice exchanged
SupportedPrefetchStrategySwapped(e) == IF Support(e) THEN "xhr" ELSE "link"

SupportedPrefetchStrategy(e) == IF Support(e) THEN "link" ELSE "xhr"

HighPriFetchStrategy(e) == IF ~e.fetch THEN "xhr" ELSE "fetch"

\* priority && priority === `high`
Truthy(p) == p \notin {"undefined", ""}
SelectStrategy(priority, e) ==
  IF Truthy(priority) /\ priority = "high"
  THEN HighPriFetchStrategy(e)
  ELSE SupportedPrefetchStrategy(e)

\* The executor of linkPrefetchStrategy's promise: it rejects without a
\* document, appends the link to the head or to the parent of the first
\* element named "script", and throws when there is neither.
LinkExecutor(e) ==
  IF ~e.document THEN "reject"
  ELSE IF e.head \/ e.namedScript THEN "appended"
  ELSE "throw"

\* new Promise(executor): a throw of the executor rejects the promise.
PromiseOf(executorResult) ==
  IF executorResult \in {"reject", "throw"} THEN "rejected" ELSE "pending"

\* What the executor of a strategy's promise does.
StrategyExecutor(s, e) == IF s = "link" THEN LinkExecutor(e) ELSE "sent"

\* Faulty variant: the assignment to preFetched is missing
AfterAwaitNeverMarks(outcome) == [mark |-> FALSE, result |-> "resolved"]

\* Faulty variant: the url marked whatever the outcome, as in a finally block
AfterAwaitMarksAlways(outcome) == [mark |-> TRUE, result |-> "resolved"]

\* Faulty variant: no catch: the rejection of the strategy is that of prefetcher
AfterAwaitNoCatch(outcome) ==
  IF outcome = "fulfilled"
  THEN [mark |-> TRUE, result |-> "resolved"]
  ELSE [mark |-> FALSE, result |-> "rejected"]

\* prefetcher after its await: try { await ...; preFetched[url] = true }
\* catch (e) {}
AfterAwait(outcome) ==
  IF outcome = "fulfilled"
  THEN [mark |-> TRUE, result |-> "resolved"]
  ELSE [mark |-> FALSE, result |-> "resolved"]

\* Faulty variant: a url with a request in flight counts as prefetched
AlreadyPrefetchedOrInFlight(url) ==
  \/ url \in preFetched
  \/ \E s \in Strategies : pending[<<url, s>>] > 0

\* Faulty variant: the key looked up is the name "url", not the url
AlreadyPrefetchedLiteralKey(url) == "url" \in preFetched

\* if (preFetched[url])
AlreadyPrefetched(url) == url \in preFetched

\* prefetcher(url, priority) up to its await: what the call did.
PrefetcherCall(url, priority) ==
  IF AlreadyPrefetched(url)
  THEN [url |-> url, priority |-> priority, did |-> "dedup",
        strategy |-> "none", executor |-> "none", start |-> "none",
        result |-> "resolved"]
  ELSE IF Gated(connection)
  THEN [url |-> url, priority |-> priority, did |-> "gated",
        strategy |-> "none", executor |-> "none", start |-> "none",
        result |-> "resolved"]
  ELSE LET s == SelectStrategy(priority, env)
           x == StrategyExecutor(s, env)
           p == PromiseOf(x)
       IN [url |-> url, priority |-> priority, did |-> "invoke",
           strategy |-> s, executor |-> x, start |-> p,
           result |-> IF p = "pending" THEN "pending"
                      ELSE AfterAwait(p).result]

Invoked(calls, u) ==
  Cardinality({i \in 1..Len(calls) :
                 calls[i].url = u /\ calls[i].did = "invoke"})
Started(calls, u, s) ==
  Cardinality({i \in 1..Len(calls) :
                 /\ calls[i].url = u /\ calls[i].strategy = s
                 /\ calls[i].start = "pending"})

RECURSIVE SumOver(_, _)
SumOver(f, S) ==
  IF S = {} THEN 0
  ELSE LET x == CHOOSE y \in S : TRUE IN f[x] + SumOver(f, S \ {x})

TotalInvocations == SumOver(invocations, Urls)

Count(calls, field, value) ==
  Cardinality({i \in 1..Len(calls) : calls[i][field] = value})

\* The effect of a task's prefetcher calls: the requests they start, and
\* the continuation of those whose promise is rejected at once.
Dispatch(calls) ==
  /\ TotalInvocations + Count(calls, "did", "invoke") <= MaxInvocations
  /\ invocations' = [u \in Urls |-> invocations[u] + Invoked(calls, u)]
  /\ pending' = [k \in Urls \X Strategies |->
                   pending[k] + Started(calls, k[1], k[2])]
  /\ preFetched' = preFetched \cup
       {calls[i].url : i \in {j \in 1..Len(calls) :
                                /\ calls[j].start = "rejected"
                                /\ AfterAwait(calls[j].start).mark}}
  /\ thrown' = thrown + Count(calls, "executor", "throw")
  /\ uncaught' = uncaught + Count(calls, "result", "rejected")

\* -------------------------------------------------------------- index.mjs

\* The options the callers give: a field is given or left out.
Absent == [given |-> FALSE, value |-> "none"]
Given(v) == [given |-> TRUE, value |-> v]
NoUrls == [given |-> FALSE, list |-> <<>>]
UrlList(l) == [given |-> TRUE, list |-> l]
\* options.timeout, in milliseconds: left out, or half the default.
NoTimeout == [given |-> FALSE, value |-> 0]
ShortTimeout == DefaultTimeout \div 2
CallerOptions ==
  {[priority |-> Absent, timeout |-> NoTimeout, el |-> Absent,
    urls |-> UrlList(<<"/a", "/b">>)],
   [priority |-> Given("high"), timeout |-> Given(ShortTimeout),
    el |-> Given("document"), urls |-> UrlList(<<"/a", "/a">>)],
   [priority |-> Absent, timeout |-> Given(ShortTimeout), el |-> Absent,
    urls |-> NoUrls],
   [priority |-> Given("high"), timeout |-> NoTimeout,
    el |-> Given("document"), urls |-> NoUrls]}

\* {...defaults, ...options}: what the caller leaves out is the default.
Merge(o) ==
  [priority |-> IF o.priority.given THEN o.priority.value ELSE "low",
   timeout |-> IF o.timeout.given THEN o.timeout.value ELSE DefaultTimeout,
   el |-> IF o.el.given THEN o.el.value ELSE "document",
   urls |-> o.urls]

\* Faulty variant: the delete removes nothing
MapDeleteNothing(m, k) == m

MapDelete(m, k) == [x \in DOMAIN m \ {k} |-> m[x]]
\* Faulty variant: the loader of a url that has one is kept
MapSetIfAbsent(m, k, v) ==
  [x \in DOMAIN m \cup {k} |-> IF x \in DOMAIN m THEN m[x] ELSE v]

MapSet(m, k, v) == [x \in DOMAIN m \cup {k} |-> IF x = k THEN v ELSE m[x]]

\* Faulty variant: the entry is deleted only when the call invokes a strategy
LoaderKeepsUnlessInvoked(reg, url, priority) ==
  [reg |-> IF PrefetcherCall(url, priority).did = "invoke"
           THEN MapDelete(reg, url) ELSE reg,
   call |-> PrefetcherCall(url, priority)]

\* The loader stored for url by a pass of the given priority, when called:
\* loaderFunctions.delete(url); prefetch(url, options.priority).
Loader(reg, url, priority) ==
  [reg |-> MapDelete(reg, url), call |-> PrefetcherCall(url, priority)]

\* Faulty variant: no filter: the entries that are not intersecting are handled too
RECURSIVE ObserverCallbackNoFilter(_, _, _, _)
ObserverCallbackNoFilter(entries, reg, calls, ignored) ==
  IF entries = <<>>
  THEN [reg |-> reg, calls |-> calls, ignored |-> ignored]
  ELSE LET entry == Head(entries)
           url == Href[entry.target]
       IN IF url \notin DOMAIN reg
          THEN ObserverCallbackNoFilter(Tail(entries), reg, calls,
                                        ignored \cup {url})
          ELSE LET r == Loader(reg, url, reg[url])
               IN ObserverCallbackNoFilter(Tail(entries), r.reg,
                                           Append(calls, r.call), ignored)

\* The observer's callback over the entries of one notification.
RECURSIVE ObserverCallback(_, _, _, _)
ObserverCallback(entries, reg, calls, ignored) ==
  IF entries = <<>>
  THEN [reg |-> reg, calls |-> calls, ignored |-> ignored]
  ELSE LET entry == Head(entries)
           url == Href[entry.target]
       IN IF ~entry.isIntersecting
          THEN ObserverCallback(Tail(entries), reg, calls, ignored)
          ELSE IF url \notin DOMAIN reg
          THEN ObserverCallback(Tail(entries), reg, calls,
                                ignored \cup {url})
          ELSE LET r == Loader(reg, url, reg[url])
               IN ObserverCallback(Tail(entries), r.reg,
                                   Append(calls, r.call), ignored)

\* urls.forEach(url => loaderFunctions.set(url, ...))
RECURSIVE SetLoaders(_, _, _)
SetLoaders(links, reg, priority) ==
  IF links = <<>> THEN reg
  ELSE SetLoaders(Tail(links), MapSet(reg, Href[Head(links)], priority),
                  priority)

\* ------------------------------------------------------------------ steps
Init ==
  /\ env \in Envs
  /\ connection = IF env.netinfo THEN Connection4g ELSE NoConnection
  /\ preFetched = {}
  /\ loaderFunctions = <<>>
  /\ observed = {}
  /\ scheduled = {}
  /\ pending = [k \in Urls \X Strategies |-> 0]
  /\ stalled = [u \in Urls |-> 0]
  /\ invocations = [u \in Urls |-> 0]
  /\ thrown = 0
  /\ uncaught = 0

\* options.timeoutFn(callback, {timeout}), by default requestIdleCallback:
\* the callback, here the options it closes over, waits with its timeout.
TimeoutFn(options, timeout) ==
  scheduled' = scheduled \cup
    {[options |-> options, timeout |-> timeout, waited |-> 0]}

\* The scheduler calls a waiting callback, once.
Invokes(unit) ==
  /\ unit \in scheduled
  /\ scheduled' = scheduled \ {unit}

\* Time passes, while the environment is never idle: a scheduler that
\* honours its contract lets no callback wait longer than its timeout.
TickMs == DefaultTimeout \div 2
Tick ==
  /\ scheduled # {}
  /\ \A unit \in scheduled : unit.waited + TickMs <= unit.timeout
  /\ scheduled' = {[unit EXCEPT !.waited = @ + TickMs] : unit \in scheduled}
  /\ UNCHANGED <<env, connection, preFetched, loaderFunctions, observed,
                 pending, stalled, invocations, thrown, uncaught>>

\* Faulty variant: the callback handed with the default timeout, not options.timeout
QuicklinkDefaultTimeout(o) ==
  /\ env.document
  /\ Cardinality(scheduled) < MaxScheduled
  /\ \E options \in {Merge(o)} :
        /\ \A unit \in scheduled : unit.options # options
        /\ TimeoutFn(options, DefaultTimeout)
  /\ UNCHANGED <<env, connection, preFetched, loaderFunctions, observed,
                 pending, stalled, invocations, thrown, uncaught>>

\* The default export: merge the options, hand the pass to timeoutFn with
\* options.timeout. (A caller does not repeat a call whose pass still waits.)
Quicklink(o) ==
  /\ env.document
  /\ Cardinality(scheduled) < MaxScheduled
  /\ \E options \in {Merge(o)} :
        /\ \A unit \in scheduled : unit.options # options
        /\ TimeoutFn(options, options.timeout)
  /\ UNCHANGED <<env, connection, preFetched, loaderFunctions, observed,
                 pending, stalled, invocations, thrown, uncaught>>

\* Faulty variant: no return after the urls: the pass goes on to the anchors
RunPassUrlsFallsThrough(unit) ==
  /\ Invokes(unit)
  /\ unit.options.urls.given
  /\ \E options \in {unit.options} :
     \E calls \in {[i \in 1..Len(options.urls.list) |->
                       PrefetcherCall(options.urls.list[i],
                                      options.priority)]} :
        Dispatch(calls)
  /\ LET options == unit.options
         linkTags == QuerySelectorAllA(options.el)
     IN /\ observed' = observed \cup {linkTags[i] : i \in 1..Len(linkTags)}
        /\ loaderFunctions' =
             SetLoaders(linkTags, loaderFunctions, options.priority)
  /\ UNCHANGED <<env, connection, stalled>>

\* The scheduled callback, with options.urls.
RunPassUrls(unit) ==
  /\ Invokes(unit)
  /\ unit.options.urls.given
  /\ \E options \in {unit.options} :
     \E calls \in {[i \in 1..Len(options.urls.list) |->
                       PrefetcherCall(options.urls.list[i],
                                      options.priority)]} :
        Dispatch(calls)
  /\ UNCHANGED <<env, connection, loaderFunctions, observed, stalled>>

\* The scheduled callback, without options.urls.
RunPassLinks(unit) ==
  /\ Invokes(unit)
  /\ ~unit.options.urls.given
  /\ LET options == unit.options
         linkTags == QuerySelectorAllA(options.el)
     IN /\ observed' = observed \cup {linkTags[i] : i \in 1..Len(linkTags)}
        /\ loaderFunctions' =
             SetLoaders(linkTags, loaderFunctions, options.priority)
  /\ UNCHANGED <<env, connection, preFetched, pending, stalled, invocations,
                 thrown, uncaught>>

\* One notification of the IntersectionObserver, about observed anchors.
Intersection(entries) ==
  /\ \A i \in 1..Len(entries) : entries[i].target \in observed
  /\ \E r \in {ObserverCallback(entries, loaderFunctions, <<>>, {})} :
        /\ loaderFunctions' = r.reg
        /\ Dispatch(r.calls)
  /\ UNCHANGED <<env, connection, observed, scheduled, stalled>>

\* A direct call of the exported prefetcher.
Prefetch(url, priority) ==
  /\ \E calls \in {<<PrefetcherCall(url, priority)>>} :
        Dispatch(calls)
  /\ UNCHANGED <<env, connection, loaderFunctions, observed, scheduled,
                 stalled>>

\* A started request settles and the awaiting prefetcher goes on.
Resume(u, s, ev, outcome) ==
  /\ pending[<<u, s>>] > 0
  /\ pending' = [pending EXCEPT ![<<u, s>>] = @ - 1]
  /\ \E r \in {AfterAwait(outcome)} :
        /\ preFetched' = IF r.mark THEN preFetched \cup {u} ELSE preFetched
        /\ uncaught' = uncaught + IF r.result = "rejected" THEN 1 ELSE 0
  /\ UNCHANGED <<env, connection, loaderFunctions, observed, scheduled,
                 stalled, invocations, thrown>>

LinkOnload(u) == Resume(u, "link", "load", "fulfilled")

LinkOnerror(u) == Resume(u, "link", "error", "rejected")

\* req.onload: resolve on status 200, reject otherwise.
XhrOutcome(status) == IF status = 200 THEN "fulfilled" ELSE "rejected"
XhrOnload(u, status) == Resume(u, "xhr", "load", XhrOutcome(status))

\* The XHR fails in transport: there is no onerror handler, the promise
\* stays pending and the prefetcher never goes on.
XhrError(u) ==
  /\ pending[<<u, "xhr">>] > 0
  /\ pending' = [pending EXCEPT ![<<u, "xhr">>] = @ - 1]
  /\ stalled' = [stalled EXCEPT ![u] = @ + 1]
  /\ UNCHANGED <<env, connection, preFetched, loaderFunctions, observed,
                 scheduled, invocations, thrown, uncaught>>

\* fetch(): fulfilled by any response, whatever its status.
FetchOutcome(status) == "fulfilled"
FetchResponse(u, status) ==
  Resume(u, "fetch", "response", FetchOutcome(status))

\* fetch(): rejected by a network error.
FetchError(u) == Resume(u, "fetch", "error", "rejected")

\* navigator.connection changes.
ConnectionChange(c) ==
  /\ env.netinfo
  /\ c # connection
  /\ connection' = c
  /\ UNCHANGED <<env, preFetched, loaderFunctions, observed, scheduled,
                 pending, stalled, invocations, thrown, uncaught>>

\* The notifications: at most MaxBatch entries, one per anchor, in document
\* order. An entry that is not intersecting is filtered out whatever its
\* target: the first anchor stands for them.
Entries ==
  {e \in [target : AnchorSet, isIntersecting : BOOLEAN] :
     ~e.isIntersecting => e.target = Anchors[1]}
Index(l) == CHOOSE i \in 1..Len(Anchors) : Anchors[i] = l
Batches ==
  {entries : entries \in
     {b \in UNION {[1..n -> Entries] : n \in 1..MaxBatch} :
        \A i \in 1..(Len(b) - 1) :
           Index(b[i].target) < Index(b[i + 1].target)}}

\* The priorities of the direct calls: left out, or high.
DirectPriorities == {"undefined", "high"}

Next ==
  \/ \E o \in CallerOptions : Quicklink(o)
  \/ \E unit \in scheduled : RunPassUrls(unit)
  \/ \E unit \in scheduled : RunPassLinks(unit)
  \/ \E entries \in Batches : Intersection(entries)
  \/ \E u \in DirectUrls, p \in DirectPriorities : Prefetch(u, p)
  \/ \E u \in Urls : LinkOnload(u)
  \/ \E u \in Urls : LinkOnerror(u)
  \/ \E u \in Urls, status \in HttpStatuses : XhrOnload(u, status)
  \/ \E u \in Urls : XhrError(u)
  \/ \E u \in Urls, status \in HttpStatuses : FetchResponse(u, status)
  \/ \E u \in Urls : FetchError(u)
  \/ \E c \in NetStates : ConnectionChange(c)

Spec == Init /\ [][Next]_vars

\* The same program with the passing of time, on the pages without network
\* information: the connection has no part in the scheduling of a pass.
InitTimed == Init /\ ~env.netinfo
NextTimed ==
  \/ \E o \in CallerOptions : Quicklink(o)
  \/ \E unit \in scheduled : RunPassUrls(unit)
  \/ \E unit \in scheduled : RunPassLinks(unit)
  \/ \E entries \in Batches : Intersection(entries)
  \/ \E u \in DirectUrls, p \in DirectPriorities : Prefetch(u, p)
  \/ \E u \in Urls : LinkOnload(u)
  \/ \E u \in Urls : LinkOnerror(u)
  \/ \E u \in Urls, status \in HttpStatuses : XhrOnload(u, status)
  \/ \E u \in Urls : XhrError(u)
  \/ \E u \in Urls, status \in HttpStatuses : FetchResponse(u, status)
  \/ \E u \in Urls : FetchError(u)
  \/ Tick
SpecTimed == InitTimed /\ [][NextTimed]_vars

\* ---------------------------------------------------------------- claims
RegisteredUrls == DOMAIN loaderFunctions
ObservedUrls == {Href[l] : l \in observed}
PendingFor(u) ==
  pending[<<u, "link">>] + pending[<<u, "xhr">>] + pending[<<u, "fetch">>]
InFlightSame(u) == \A s \in Strategies : pending'[<<u, s>>] = pending[<<u, s>>]
Occurrences(list, u) == Cardinality({i \in 1..Len(list) : list[i] = u})

\* The steps that call prefetcher: a direct call, a pass over a urls list,
\* a notification of the observer.
DirectCall == \E u \in DirectUrls, p \in DirectPriorities : Prefetch(u, p)
ListPass == \E o \in scheduled : RunPassUrls(o)
\* What every notification does, by the definitions of Intersection and
\* Dispatch: it leaves the page, the connection, the observed anchors and the
\* scheduler as they are and takes no request away. A step that does
\* otherwise is no notification, whatever the entries.
QuietStep ==
  /\ UNCHANGED <<env, connection, observed, scheduled, stalled>>
  /\ \A k \in Urls \X Strategies : pending'[k] >= pending[k]
Notified(entries) == QuietStep /\ Intersection(entries)
Notification == \E b \in Batches : Notified(b)
CallStep == DirectCall \/ ListPass \/ Notification

\* The network information says 2g or save-data.
SlowOrSaving ==
  connection \in {Connection(Defined(StrSlow2g), FALSE),
                  Connection(Undefined, TRUE)}

\* The page that supports rel=prefetch and has nothing to append a link to,
\* where every low-priority invocation throws.
NoContainer ==
  env.document /\ env.relListSupports /\ ~env.head /\ ~env.namedScript

\* The strategy the claims name for a priority.
ExpectedStrategy(priority) ==
  IF priority = "high"
  THEN IF env.fetch THEN "fetch" ELSE "xhr"
  ELSE IF env.document /\ env.relListSupports THEN "link" ELSE "xhr"

\* The step starts for u a request of strategy s, or the executor of s
\* throws, and it starts no request of another strategy for u.
StartsOnly(u, s) ==
  /\ \A t \in Strategies \ {s} : pending'[<<u, t>>] = pending[<<u, t>>]
  /\ \/ pending'[<<u, s>>] > pending[<<u, s>>]
     \/ s = "link" /\ thrown' > thrown

\* A step that invokes a strategy for u invokes s and no other.
InvokedOnly(u, s) == invocations'[u] > invocations[u] => StartsOnly(u, s)

\* The request of u settles with a failure.
FailureOf(u) ==
  \/ LinkOnerror(u)
  \/ \E status \in HttpStatuses \ {200} : XhrOnload(u, status)
  \/ FetchError(u)

\* C1, as stated: over the whole run at most one strategy invocation is made
\* for a url.
C1_AtMostOneInvocation == \A u \in Urls : invocations[u] <= 1

\* C1, amended: once a url is a member of preFetched, no step makes a
\* strategy invocation for it.
C1_NoInvocationOncePrefetched ==
  [][\A u \in Urls : u \in preFetched => invocations'[u] = invocations[u]]_vars

\* Where every low-priority invocation throws: "/a" was invoked once (by a
\* high-priority call, to be prefetched) and "/b" once, and one executor
\* threw, that of "/b": the low-priority pass over <<"/a", "/b">> ran when
\* "/a" was prefetched and invoked nothing for it.
C1_Witness ==
  /\ NoContainer
  /\ "/a" \in preFetched
  /\ invocations["/a"] = 1
  /\ invocations["/b"] = 1
  /\ thrown = 1

\* C2: a call of prefetcher for a url that is a member of preFetched invokes
\* no strategy and changes nothing: a direct call leaves every variable as
\* it is, and a pass or a notification that calls it leaves the url a member
\* and its invocations and requests as they are.
C2_SecondCallDoesNothing ==
  [][/\ \A u \in DirectUrls, p \in DirectPriorities :
          (u \in preFetched /\ Prefetch(u, p)) => UNCHANGED vars
     /\ \A u \in preFetched :
          \/ /\ u \in preFetched'
             /\ invocations'[u] = invocations[u]
             /\ InFlightSame(u)
             /\ stalled'[u] = stalled[u]
          \/ ~CallStep]_vars

\* Where every low-priority invocation throws: the loader of "/a" stored by
\* the last, low-priority pass (that of "" is still there) has been called
\* and no executor has thrown: its call of prefetcher found "/a" prefetched,
\* by the one invocation made for it, and invoked nothing.
C2_Witness ==
  /\ NoContainer
  /\ "/a" \in preFetched
  /\ invocations["/a"] = 1
  /\ thrown = 0
  /\ "/a" \in ObservedUrls
  /\ "/a" \notin RegisteredUrls
  /\ "" \in RegisteredUrls
  /\ loaderFunctions[""] = "low"

\* C3: while the network information says 2g or save-data, a step that calls
\* prefetcher invokes no strategy, starts no request and leaves preFetched
\* as it is.
C3_GatedCallDoesNothing ==
  [][(SlowOrSaving /\ CallStep) =>
       /\ invocations' = invocations
       /\ pending' = pending
       /\ thrown' = thrown
       /\ preFetched' = preFetched]_vars

\* The loader of "" has been called (that of "/a", stored with it, is still
\* there), no strategy was ever invoked for "", reached by loaders only, and
\* the network information says 2g or save-data.
C3_Witness ==
  /\ SlowOrSaving
  /\ "" \in ObservedUrls
  /\ "" \notin RegisteredUrls
  /\ "/a" \in RegisteredUrls
  /\ invocations[""] = 0
  /\ "" \notin preFetched

\* C4: a failure of the strategy invoked for a url adds nothing to preFetched,
\* and every call of prefetcher for a url that is not prefetched, made while
\* the network is not gated, invokes a strategy for it: the other urls of a
\* list, and the url that failed when it is dispatched again.
C4_FailureIsolated ==
  [][/\ preFetched' # preFetched => \A u \in Urls : ~FailureOf(u)
     /\ preFetched' # preFetched => thrown' = thrown
     /\ \A u \in DirectUrls \ preFetched, p \in DirectPriorities :
          (~SlowOrSaving /\ invocations'[u] # invocations[u] + 1)
            => ~Prefetch(u, p)
     /\ \A o \in scheduled, u \in Urls \ preFetched :
          (/\ ~SlowOrSaving
           /\ invocations'[u] # invocations[u] + Occurrences(o.options.urls.list, u))
            => ~RunPassUrls(o)
     /\ \A u \in (RegisteredUrls \ DOMAIN loaderFunctions') \ preFetched :
          (~SlowOrSaving /\ Notification)
            => invocations'[u] = invocations[u] + 1]_vars

\* Where every low-priority invocation throws: two invocations were made for
\* "/a" and both threw. The first failure was over when the second call was
\* made: "/a" had not been marked and the strategy was invoked again.
C4_Witness ==
  /\ NoContainer
  /\ invocations["/a"] = 2
  /\ thrown = 2
  /\ "/a" \notin preFetched

\* C5: whatever the strategy and its failure, the promise of prefetcher is
\* never rejected.
C5_NeverRejects == uncaught = 0

\* The one invocation made for a url has settled (no request is pending or
\* stalled), its executor did not throw and the url is not prefetched: the
\* request failed, and no promise of prefetcher was rejected.
C5_Witness ==
  \E u \in Urls :
    /\ invocations[u] = 1
    /\ PendingFor(u) = 0
    /\ stalled[u] = 0
    /\ thrown = 0
    /\ u \notin preFetched
    /\ uncaught = 0

\* C6, as stated: with nothing to append the link to, the fault of the
\* link-prefetch strategy leaves the dispatch as an uncaught fault: every
\* executor that threw is a rejected promise of prefetcher.
C6_FaultPropagates == thrown <= uncaught

\* C6, amended: the fault is swallowed as a failure of the transport is: the
\* step in which an executor throws rejects no promise of prefetcher, marks
\* no url and starts no link request.
C6_FaultSwallowed ==
  [][thrown' > thrown =>
       /\ uncaught' = uncaught
       /\ preFetched' = preFetched
       /\ \A u \in Urls :
            pending'[<<u, "link">>] = pending[<<u, "link">>]]_vars

\* An executor threw, no promise of prefetcher was rejected and no url is
\* prefetched.
C6_Witness ==
  /\ NoContainer
  /\ thrown > 0
  /\ uncaught = 0
  /\ preFetched = {}

\* C7: a pass with a urls list calls prefetcher once for each element of the
\* list with the priority of its options (a strategy is invoked for a url as
\* many times as the list names it, unless it is prefetched or the network
\* gated, and it is the strategy of that priority), observes no anchor and
\* stores no loader.
C7_ListPassBypassesObserver ==
  [][\A o \in scheduled :
       RunPassUrls(o) =>
         /\ observed' = observed
         /\ loaderFunctions' = loaderFunctions
         /\ \A u \in Urls :
              /\ invocations'[u] = invocations[u]
                   + IF u \in preFetched \/ SlowOrSaving THEN 0
                     ELSE Occurrences(o.options.urls.list, u)
              /\ InvokedOnly(u, ExpectedStrategy(o.options.priority))]_vars

\* "/b" is reached by the list <<"/a", "/b">> only: the pass has invoked a
\* strategy for each of the two, the document has an anchor to "/a", and no
\* anchor is observed and no loader stored.
C7_Witness ==
  /\ invocations["/a"] = 1
  /\ invocations["/b"] = 1
  /\ PendingFor("/a") = 1
  /\ PendingFor("/b") = 1
  /\ \E l \in AnchorSet : Href[l] = "/a"
  /\ observed = {}
  /\ loaderFunctions = <<>>

\* C8: a notification calls the loader of a url at most once, however many
\* of its entries are anchors of that url: it stores no loader, it invokes a
\* strategy for a url at most once and only for a url whose loader it
\* removes, and for a url without a loader it invokes nothing and starts
\* nothing.
C8_TriggerAtMostOnce ==
  [][\/ /\ DOMAIN loaderFunctions' \subseteq RegisteredUrls
        /\ \A u \in Urls :
             /\ invocations'[u] <= invocations[u] + 1
             /\ invocations'[u] > invocations[u]
                  => (u \in RegisteredUrls
                      /\ u \notin DOMAIN loaderFunctions')
             /\ u \notin RegisteredUrls
                  => (invocations'[u] = invocations[u] /\ InFlightSame(u))
     \/ ~Notification]_vars

\* The two anchors of "" are observed, the loader of "" has been called
\* (that of "/a", stored with it, is still there), and the one strategy
\* invocation ever made for "", reached by loaders only, is its own.
C8_Witness ==
  /\ {"l2", "l3"} \subseteq observed
  /\ Href["l2"] = Href["l3"]
  /\ "" \notin RegisteredUrls
  /\ "/a" \in RegisteredUrls
  /\ invocations[""] = 1

\* C9, as stated: a url whose loader has been called and removed never has a
\* loader again.
C9_NeverRegisteredAgain ==
  [][\A u \in ObservedUrls :
       u \notin RegisteredUrls => u \notin DOMAIN loaderFunctions']_vars

\* C9, amended: a url whose loader has been called and removed has no loader
\* and is not dispatched by a notification until a later pass over the
\* anchors stores a loader for it again: only such a pass gives a url a
\* loader, and a notification invokes nothing for a url without one.
C9_RegisteredAgainOnlyByPass ==
  [][/\ \A u \in Urls :
          (u \notin RegisteredUrls /\ u \in DOMAIN loaderFunctions')
            => \E o \in scheduled : RunPassLinks(o)
     /\ \A u \in ObservedUrls \ RegisteredUrls :
          invocations'[u] # invocations[u] => ~Notification]_vars

\* Two strategy invocations were made for "", reached by loaders only: its
\* loader was called, stored again by a later pass and called again.
C9_Witness == invocations[""] = 2

\* C10: the strategy invoked is that of the priority: for high, fetch when
\* there is one and XHR otherwise; for any other, the link when rel=prefetch
\* is supported and XHR otherwise.
C10_StrategyOfPriority ==
  [][\A u \in Urls :
       invocations'[u] > invocations[u] =>
         /\ \A p \in DirectPriorities :
              (u \in DirectUrls /\ Prefetch(u, p))
                => StartsOnly(u, ExpectedStrategy(p))
         /\ \A o \in scheduled :
              RunPassUrls(o) => StartsOnly(u, ExpectedStrategy(o.options.priority))
         /\ Notification
              => (u \in RegisteredUrls
                  /\ StartsOnly(u, ExpectedStrategy(loaderFunctions[u])))
    ]_vars

\* With rel=prefetch and fetch: a link is pending for "", dispatched by a
\* low-priority loader, and a fetch for "/a".
C10_Witness ==
  /\ pending[<<"", "link">>] = 1
  /\ pending[<<"/a", "fetch">>] = 1

\* The timeout a caller configures: options.timeout, or the default.
ConfiguredTimeout(o) ==
  IF o.timeout.given THEN o.timeout.value ELSE DefaultTimeout
PassOf(unit) == RunPassUrls(unit) \/ RunPassLinks(unit)

\* C11: a call of the entry point hands the scheduler exactly one callback,
\* with the timeout the caller configured (or the default) and nothing
\* waited; nothing else hands one; the run of a pass takes exactly its own
\* callback off the scheduler, so that it runs once; and with a scheduler
\* that lets no callback wait longer than the timeout it was handed, no
\* pass waits longer than the configured timeout, the environment never
\* being idle.
C11_OneUnitWithinTimeout ==
  [][/\ \A o \in CallerOptions :
          Quicklink(o) =>
            \E unit \in scheduled' \ scheduled :
               /\ scheduled' = scheduled \cup {unit}
               /\ unit.timeout = ConfiguredTimeout(o)
               /\ unit.options.timeout = ConfiguredTimeout(o)
               /\ unit.options.urls = o.urls
               /\ unit.waited = 0
     /\ \A unit \in scheduled' \ scheduled :
          \/ unit.waited > 0
          \/ \E o \in CallerOptions : Quicklink(o)
     /\ \A unit \in scheduled : PassOf(unit) => scheduled' = scheduled \ {unit}
     /\ \A unit \in scheduled' : unit.waited <= unit.options.timeout
    ]_vars

\* A pass configured with the short timeout has waited all of it and must
\* run before time passes again.
C11_Witness ==
  \E unit \in scheduled :
     /\ unit.options.timeout = ShortTimeout
     /\ unit.timeout = ShortTimeout
     /\ unit.waited = ShortTimeout
     /\ ~ENABLED Tick

\* The request of u settles and the promise of its strategy is fulfilled.
FulfilmentOf(u) ==
  \/ LinkOnload(u)
  \/ XhrOnload(u, 200)
  \/ \E status \in HttpStatuses : FetchResponse(u, status)

\* The strategy invocations of u that are over: their promise settled or
\* their executor threw.
Settled(u) == invocations[u] - PendingFor(u) - stalled[u]

C13_XhrAlwaysSettles == \A u \in Urls : stalled[u] = 0

\* C14: a response whose status is not 200 is a failure of the strategy,
\* whatever the strategy: the step in which it arrives does not make the url
\* a member of preFetched.
C14_Non200IsFailure ==
  [][\A u \in Urls \ preFetched, status \in HttpStatuses \ {200} :
       (XhrOnload(u, status) \/ FetchResponse(u, status))
         => u \notin preFetched']_vars

\* The requests in flight for u after the step are n more than before.
InFlightMore(u, n) == PendingFor(u)' = PendingFor(u) + n

\* C15: preFetched is written only after the await. A call of prefetcher for
\* a url that is not a member invokes a strategy, the network not being
\* gated, also while an earlier request for the url is in flight (a direct
\* call, a loader) and for each occurrence of the url in one list; no step
\* that calls prefetcher adds a member; so the requests in flight for the
\* url become one more, or as many more as the list names it.
C15_InFlightNotSuppressed ==
  [][/\ \A u \in DirectUrls \ preFetched, p \in DirectPriorities :
          (/\ PendingFor(u) > 0
           /\ ~SlowOrSaving
           /\ \/ invocations'[u] # invocations[u] + 1
              \/ ~(InFlightMore(u, 1) \/ thrown' > thrown))
            => ~Prefetch(u, p)
     /\ \A o \in scheduled, u \in Urls \ preFetched :
          (/\ ~SlowOrSaving
           /\ \E n \in {Occurrences(o.options.urls.list, u)} :
                \/ invocations'[u] # invocations[u] + n
                \/ ~(InFlightMore(u, n) \/ thrown' > thrown))
            => ~RunPassUrls(o)
     /\ \A u \in (RegisteredUrls \ DOMAIN loaderFunctions') \ preFetched :
          (PendingFor(u) > 0 /\ ~SlowOrSaving /\ Notification)
            => (/\ invocations'[u] = invocations[u] + 1
                /\ InFlightMore(u, 1) \/ thrown' > thrown)
     /\ preFetched' # preFetched => ~CallStep]_vars

\* Two requests for "/a" are in flight at once and "/a" is not a member.
C15_Witness ==
  /\ PendingFor("/a") = 2
  /\ invocations["/a"] = 2
  /\ "/a" \notin preFetched

\* The step touches u: a strategy is invoked for it, a request of its own
\* starts, or its loader is stored, replaced or removed.
Touched(u) ==
  \/ invocations'[u] # invocations[u]
  \/ ~InFlightSame(u)
  \/ (u \in RegisteredUrls) # (u \in DOMAIN loaderFunctions')
  \/ /\ u \in RegisteredUrls
     /\ u \in DOMAIN loaderFunctions'
     /\ loaderFunctions'[u] # loaderFunctions[u]

\* The notification has an entry that is intersecting, of an anchor of u,
\* while u has a loader.
Reported(entries, u) ==
  /\ u \in RegisteredUrls
  /\ \E i \in 1..Len(entries) :
        entries[i].isIntersecting /\ Href[entries[i].target] = u

\* C16: a pass over the anchors calls prefetcher for none of them; a
\* notification calls it for a url only if one of its entries is
\* intersecting and of an anchor of that url and the url has a loader: for
\* any other url it invokes nothing, starts nothing and leaves the loaders
\* as they are; and no notification adds a member to preFetched.
C16_DispatchOnlyWhenReported ==
  [][/\ (invocations' # invocations \/ pending' # pending)
          => \A unit \in scheduled : ~RunPassLinks(unit)
     /\ QuietStep =>
          \A entries \in Batches :
            (\E u \in Urls : Touched(u) /\ ~Reported(entries, u))
              => ~Intersection(entries)
     /\ preFetched' # preFetched => ~Notification]_vars

\* The three anchors are observed; "/a" still has its loader and nothing was
\* invoked for it, while the loader of "" was called by a notification that
\* said an anchor of "" intersecting.
C16_Witness ==
  /\ observed = AnchorSet
  /\ "/a" \in RegisteredUrls
  /\ invocations["/a"] = 0
  /\ "" \notin RegisteredUrls
  /\ invocations[""] = 1
  /\ PendingFor("") = 1

\* C17: a pass observes an anchor and stores a loader for it only if the
\* anchor has a url: no anchor without href is observed and no loader is
\* stored under the empty url.
C17_OnlyAnchorsWithUrl ==
  /\ "" \notin RegisteredUrls
  /\ \A l \in observed : Href[l] # ""

LinksPass == \E unit \in scheduled : RunPassLinks(unit)

\* C18: a loader removes its entry whether or not its call of prefetcher
\* fetches anything. A notification that says an anchor of a url with a
\* loader intersecting removes the loader, also while the network is gated,
\* when it invokes and starts nothing; the url then has no loader until a
\* pass over the anchors stores one, and until then no notification invokes
\* a strategy for it, whatever the network has become; and a url that is
\* not a member of preFetched and has no request in flight stays out of it.
C18_TriggerConsumedEvenIfIdle ==
  [][/\ QuietStep =>
          \A entries \in Batches, u \in DOMAIN loaderFunctions' :
            Reported(entries, u) => ~Intersection(entries)
     /\ (SlowOrSaving /\ (invocations' # invocations \/ pending' # pending))
          => ~Notification
     /\ \A u \in ObservedUrls \ RegisteredUrls :
          /\ u \in DOMAIN loaderFunctions' => LinksPass
          /\ invocations'[u] # invocations[u] => (DirectCall \/ ListPass)
     /\ \A u \in Urls \ preFetched :
          PendingFor(u) = 0 => u \notin preFetched']_vars

\* The network is no longer gated; the loader of "", reached by loaders
\* only, was called and removed when it was, since no strategy was ever
\* invoked for ""; "" is still observed, has no loader and is not a member.
C18_Witness ==
  /\ env.netinfo
  /\ connection = Connection4g
  /\ "" \in ObservedUrls
  /\ "" \notin RegisteredUrls
  /\ invocations[""] = 0
  /\ "" \notin preFetched
  /\ scheduled = {}

\* The urls of the anchors a pass finds.
AnchorUrls(unit) ==
  {Href[QuerySelectorAllA(unit.options.el)[i]] :
     i \in 1..Len(QuerySelectorAllA(unit.options.el))}

\* C19: loaderFunctions has one loader per url. A pass over the anchors
\* stores for each of their urls the loader of its own priority, in the place
\* of the loader an earlier pass stored, and leaves the others; and a
\* notification that calls the loader of a url removes it and makes one
\* strategy invocation for the url, that of the priority stored last.
C19_LaterRegistrationReplaces ==
  [][/\ \A unit \in scheduled :
          RunPassLinks(unit) =>
            /\ DOMAIN loaderFunctions' = RegisteredUrls \cup AnchorUrls(unit)
            /\ \A u \in AnchorUrls(unit) :
                 loaderFunctions'[u] = unit.options.priority
            /\ \A u \in RegisteredUrls \ AnchorUrls(unit) :
                 loaderFunctions'[u] = loaderFunctions[u]
     /\ \A u \in RegisteredUrls :
          (invocations'[u] # invocations[u] /\ Notification)
            => /\ invocations'[u] = invocations[u] + 1
               /\ u \notin DOMAIN loaderFunctions'
               /\ StartsOnly(u, ExpectedStrategy(loaderFunctions[u]))]_vars

\* With rel=prefetch and fetch: a low-priority loader of "" was called (a
\* link is pending for it), so a low-priority pass stored loaders; a
\* high-priority pass stored them again ("" has a high-priority loader);
\* then the loader of "/a" was called: the one invocation for "/a" is a
\* fetch, the strategy of the later pass.
C19_Witness ==
  /\ pending[<<"", "link">>] = 1
  /\ "" \in RegisteredUrls
  /\ loaderFunctions[""] = "high"
  /\ "/a" \in ObservedUrls
  /\ "/a" \notin RegisteredUrls
  /\ invocations["/a"] = 1
  /\ pending[<<"/a", "fetch">>] = 1

\* ------------------------------------------------------------- fair runs
\* The runs in which every strategy invocation can succeed and does: a page
\* where the link can be appended, a network that is never gated, requests
\* that all complete with a success, a scheduler that calls every callback.
\* The callers stay within MaxInvocations: a call is made only if the
\* strategy invocations made, those the waiting passes and the stored
\* loaders can still make, and its own, are no more than the bound, so that
\* no step of the program waits for the bound.
UnitDemand(unit) ==
  IF unit.options.urls.given
  THEN Cardinality({i \in 1..Len(unit.options.urls.list) :
                      unit.options.urls.list[i] \notin preFetched})
  ELSE Cardinality(AnchorUrls(unit) \ preFetched)
Demand(units, reg) ==
  SumOver([unit \in units |-> UnitDemand(unit)], units)
    + Cardinality(DOMAIN reg \ preFetched)

InitLive ==
  /\ Init
  /\ env.relListSupports => (env.head \/ env.namedScript)

QuicklinkWithin(o) ==
  /\ Quicklink(o)
  /\ TotalInvocations + Demand(scheduled', loaderFunctions) <= MaxInvocations

PrefetchWithin(u, p) ==
  /\ u \notin preFetched
  /\ TotalInvocations + Demand(scheduled, loaderFunctions) + 1
       <= MaxInvocations
  /\ Prefetch(u, p)

\* The callbacks the callers can hand to the scheduler.
Units ==
  {[options |-> Merge(o), timeout |-> Merge(o).timeout, waited |-> 0] :
     o \in CallerOptions}

\* A notification that says an anchor of u intersecting while u has a loader.
Report(u) ==
  \E entries \in Batches : Reported(entries, u) /\ Intersection(entries)

NextLive ==
  \/ \E o \in CallerOptions : QuicklinkWithin(o)
  \/ \E unit \in scheduled : RunPassUrls(unit)
  \/ \E unit \in scheduled : RunPassLinks(unit)
  \/ \E entries \in Batches : Intersection(entries)
  \/ \E u \in DirectUrls, p \in DirectPriorities : PrefetchWithin(u, p)
  \/ \E u \in Urls : LinkOnload(u)
  \/ \E u \in Urls : XhrOnload(u, 200)
  \/ \E u \in Urls, status \in HttpStatuses : FetchResponse(u, status)

SpecLive ==
  /\ InitLive
  /\ [][NextLive]_vars
  /\ \A unit \in Units : WF_vars(PassOf(unit))
  /\ \A u \in Urls : WF_vars(FulfilmentOf(u))

\* C20: in the fair runs, every url of the list of a waiting pass becomes a
\* member of preFetched, every url with a request in flight does, and every
\* url with a loader does if the notifications that say its anchor
\* intersecting are not withheld for ever.
C20_EventuallyPrefetched ==
  /\ \A unit \in Units, u \in ListUrls :
       (/\ unit \in scheduled
        /\ unit.options.urls.given
        /\ Occurrences(unit.options.urls.list, u) > 0) ~> (u \in preFetched)
  /\ \A u \in Urls : (PendingFor(u) > 0) ~> (u \in preFetched)
  /\ \A u \in Urls :
       WF_vars(Report(u)) => ((u \in RegisteredUrls) ~> (u \in preFetched))

\* The callers' budget keeps every step of the program within the bound.
LiveWithinBound ==
  TotalInvocations + Demand(scheduled, loaderFunctions) <= MaxInvocations

\* The urls of all the anchors, reached through their loaders, are members:
\* the pass ran, the notifications came, the requests succeeded.
C20_Witness ==
  /\ observed = AnchorSet
  /\ RegisteredUrls = {}
  /\ "" \in preFetched
  /\ "/a" \in preFetched
  /\ invocations[""] = 1

====
